---- MODULE Spec2Model ----
(***************************************************************************)
(* The load stage of the Airbnb analytics pipeline: the SCD2 upsert of    *)
(* src/pipeline/load.py run through the DBConnector of                    *)
(* src/utils/db_connector.py against a PostgreSQL warehouse.              *)
(*                                                                         *)
(* The warehouse state is what other connections can read: the committed  *)
(* contents of the target dimension table and of its staging table.       *)
(* DBConnector.run_query opens a connection of an engine created with     *)
(* future=True, executes one statement and closes the connection; it      *)
(* never calls commit, and closing a connection with a transaction in     *)
(* progress rolls the transaction back.  DataFrame.to_sql, used by        *)
(* load_dataframe, runs inside its own committed transaction.             *)
(***************************************************************************)
EXTENDS Integers, Sequences, FiniteSets, TLC

\* ---------------------------------------------------------------- bounds
MaxLen == 2      \* rows of one candidate dataframe
MaxClock == 3    \* last instant of the clock
MaxCopies == 2   \* copies of one row a Type 1 or fact table may hold

\* ------------------------------------------------------------- constants
NaT == -1                    \* pd.NaT / SQL NULL in a timestamp column
Null == "<null>"             \* pd.NA / SQL NULL in an attribute column

Keys == 1..2                 \* natural keys (host_id, listing_id)
Values == {"A", "", Null}    \* values of the tracked attribute
Untracked == {"x", "y"}      \* values of an attribute that is not tracked
Runs == {"scheduled", "manual"}   \* DAG runs that may be active
\* tracked_columns with the attribute that load_all leaves out of it
tracked_columns_with_untracked == {"name", "untracked"}

\* tracked_columns as load_all passes it: host_id of dim_listing is not in it
tracked_columns == {"name"}
AllColumns == {"key", "name", "untracked"}

VARIABLES
    target,    \* committed rows of {target_schema}.{table_name}
    staging,   \* committed rows of {staging_schema}.{table_name}_staging
    clock,     \* wall clock: pd.Timestamp.utcnow() and NOW() read it
    pc,        \* per run: position inside scd2_upsert
    txn,       \* per run: the table as seen inside the transaction of its
               \* last statement, after the statement executed
    pre,       \* per run: the committed target when the run started
    dataframe, \* per run: the dataframe its last scd2_upsert call was given
    warehouse, \* load_all: committed rows of every table it writes
    load,      \* load_all: position, status, and the last step's dataframe
    transform  \* transform_datasets: the extracted date columns, the status
               \* of the call and the dim_date dataframe it produced

vars == <<target, staging, clock, pc, txn, pre, dataframe, warehouse, load,
          transform>>

\* ------------------------------------------------------------ the tables
Rec(i, k, v, u, f, t, c) ==
    [id |-> i, key |-> k, name |-> v, untracked |-> u,
     effective_from |-> f, effective_to |-> t, is_current |-> c]

\* The version history one natural key may have when the pipeline starts.
Histories(k) ==
    { {} }
    \cup { {Rec(2 * k, k, v, "x", 1, NaT, TRUE)} : v \in {"A", Null} }
    \cup { {Rec(2 * k - 1, k, "A", "x", 0, 1, FALSE),
            Rec(2 * k, k, "", "x", 1, NaT, TRUE)} }
    \cup { {Rec(2 * k - 1, k, "A", "x", 0, 1, FALSE)} }

InitTargets ==
    LET All == UNION {Histories(k) : k \in Keys}
    IN  { UNION {h[k] : k \in Keys} :
            h \in {g \in [Keys -> All] : \A k \in Keys : g[k] \in Histories(k)} }

\* The candidate dataframes handed to scd2_upsert: rows in dataframe order.
Rows == [key : Keys, name : Values, untracked : Untracked]
Candidates == UNION {[1..n -> [key : Keys, name : Values, untracked : {"x"}]]
                        : n \in 0..MaxLen}

\* rows of a dataframe that has no natural key column
KeylessRows == [name : {"A"}, untracked : {"x"}]
KeylessCandidates == UNION {[1..n -> KeylessRows] : n \in 0..MaxLen}

\* A dataframe: its columns and its rows in order.
Frame(cols, rows) == [columns |-> cols, rows |-> rows]

\* every dataframe a caller can pass
Dataframes ==
    {Frame(AllColumns, c) : c \in Candidates}
    \cup {Frame(AllColumns \ {"key"}, c) : c \in KeylessCandidates}

\* the dataframes without duplicate keys, one row order for each row set
UniqueKeyFrames ==
    {Frame(AllColumns, c) :
        c \in {q \in UNION {[1..n -> Rows] : n \in 0..MaxLen} :
                  \A i, j \in 1..Len(q) : i < j => q[i].key < q[j].key}}

\* the dataframes of at most one row
SingleRowFrames == {Frame(AllColumns, c) : c \in {q \in Candidates : Len(q) <= 1}}

\* ------------------------------------------------------ change detection
\* The modelled tracked column is a text column (host_name, listing_name):
\* its ::text cast leaves the value, NULL included, as it is.
Coalesce(v, d) == IF v = Null THEN d ELSE v

\* dim.col IS DISTINCT FROM s.col, without the COALESCE to ''
ColumnDiffers_no_coalesce(d, s, col) == d[col] # s[col]

\* COALESCE(dim.col::text, '') IS DISTINCT FROM COALESCE(s.col::text, '')
ColumnDiffers(d, s, col) == Coalesce(d[col], "") # Coalesce(s[col], "")

_diff_condition(d, s, columns) == \E col \in columns : ColumnDiffers(d, s, col)

\* ---------------------------------------------------------------- staging
\* DataFrame.drop_duplicates(subset=[natural_key]) keeps the first row of
\* every key (keep="first" is the default).
drop_duplicates(cand) ==
    { cand[i] : i \in { n \in 1..Len(cand) :
                          \A j \in 1..(n - 1) : cand[j].key # cand[n].key } }

\* staged_df after the three versioning columns are stamped on it
staged_df(rows, now_ts) ==
    { [key |-> row.key, name |-> row.name, untracked |-> row.untracked,
       effective_from |-> now_ts, effective_to |-> NaT, is_current |-> TRUE]
      : row \in rows }

\* ------------------------------------------------------------ statements
\* update_sql without "dim.key = s.key": the close-out is not tied to the key.
update_sql_any_key(tgt, stg, now) ==
    { IF d.is_current /\ \E s \in stg : _diff_condition(d, s, tracked_columns)
      THEN [d EXCEPT !.effective_to = now, !.is_current = FALSE]
      ELSE d
      : d \in tgt }

\* update_sql with "SET is_current = FALSE" only: effective_to stays unset.
update_sql_flag_only(tgt, stg, now) ==
    { IF d.is_current
         /\ \E s \in stg : d.key = s.key /\ _diff_condition(d, s, tracked_columns)
      THEN [d EXCEPT !.is_current = FALSE]
      ELSE d
      : d \in tgt }

\* update_sql without "dim.is_current = TRUE": closed versions are closed
\* again.
update_sql_any_version(tgt, stg, now) ==
    { IF \E s \in stg : d.key = s.key /\ _diff_condition(d, s, tracked_columns)
      THEN [d EXCEPT !.effective_to = now, !.is_current = FALSE]
      ELSE d
      : d \in tgt }

\* UPDATE dim SET effective_to = NOW(), is_current = FALSE FROM staged s
\* WHERE dim.is_current AND dim.key = s.key AND (diff)
update_sql(tgt, stg, now) ==
    { IF d.is_current
         /\ \E s \in stg : d.key = s.key /\ _diff_condition(d, s, tracked_columns)
      THEN [d EXCEPT !.effective_to = now, !.is_current = FALSE]
      ELSE d
      : d \in tgt }

\* Joined without "AND dim.is_current = TRUE": closed versions join too.
Joined_any_version(tgt, stg) ==
    { [s |-> s, dim |-> d.id] :
        <<s, d>> \in {p \in stg \X tgt : p[2].key = p[1].key} }
    \cup { [s |-> s, dim |-> 0] :
        s \in {x \in stg : ~ \E d \in tgt : d.key = x.key} }

\* staged s LEFT JOIN dim ON dim.key = s.key AND dim.is_current:
\* one joined row per matching pair, dim = 0 for a staged row without match.
Joined(tgt, stg) ==
    { [s |-> s, dim |-> d.id] :
        <<s, d>> \in {p \in stg \X tgt : p[2].key = p[1].key /\ p[2].is_current} }
    \cup { [s |-> s, dim |-> 0] :
        s \in {x \in stg : ~ \E d \in tgt : d.key = x.key /\ d.is_current} }

ById(tgt, i) == CHOOSE d \in tgt : d.id = i

\* WHERE dim.key IS NULL OR (diff)
Changed(tgt, stg) ==
    { j \in Joined(tgt, stg) :
        j.dim = 0 \/ _diff_condition(ById(tgt, j.dim), j.s, tracked_columns) }

MaxId(tgt) ==
    IF tgt = {} THEN 0 ELSE CHOOSE i \in {d.id : d \in tgt} : \A d \in tgt : d.id <= i

Before(a, b) == a.s.key < b.s.key \/ (a.s.key = b.s.key /\ a.dim < b.dim)

\* INSERT INTO dim (columns without the surrogate key) SELECT ... FROM changed
insert_sql(tgt, stg) ==
    LET changed == Changed(tgt, stg)
        Serial(j) == MaxId(tgt) + 1 + Cardinality({x \in changed : Before(x, j)})
    IN  tgt \cup { Rec(Serial(j), j.s.key, j.s.name, j.s.untracked,
                       j.s.effective_from, j.s.effective_to, j.s.is_current)
                   : j \in changed }

\* ----------------------------------------------------------- connections
\* run_query with a commit before the close.
run_query_commit(committed, result) == result

\* run_query: connect, execute, close.  No commit is issued, so the close
\* rolls the statement back and the committed table is what it was.
run_query(committed, result) == committed

\* _stage_dataframe: load_dataframe(if_exists="replace") drops the staging
\* table and writes the staged rows in a transaction that to_sql commits.
\* (Its _ensure_schema goes through run_query and leaves nothing behind.)
_stage_dataframe(old, staged) == staged

\* ---------------------------------------------------- the tables of load_all
VersionedTables == {"dim_host", "dim_listing"}
Type1Tables == {"dim_neighborhood", "dim_property_type", "dim_date"}
FactTables == {"fact_listing_daily_metrics", "fact_review"}

\* load_all with the two fact tables loaded before the dimensions.
Targets_facts_first ==
    <<"fact_listing_daily_metrics", "fact_review", "dim_host", "dim_listing",
      "dim_neighborhood", "dim_property_type", "dim_date">>

\* the write targets in the order of the calls in load_all
Targets ==
    <<"dim_host", "dim_listing", "dim_neighborhood", "dim_property_type",
      "dim_date", "fact_listing_daily_metrics", "fact_review">>

\* staging_table = f"{table_name}_staging"
StagingOf(t) == IF t = "dim_host" THEN "dim_host_staging" ELSE "dim_listing_staging"

Tables ==
    VersionedTables \cup {StagingOf(t) : t \in VersionedTables}
    \cup Type1Tables \cup FactTables

\* The fact tables carry the foreign keys to the Type 1 dimensions, so
\* TRUNCATE ... CASCADE of a dimension truncates them as well.
References(t) == IF t \in Type1Tables THEN FactTables ELSE {}

\* Rows of a Type 1 dimension or of a fact table; such a table is a bag:
\* the number of copies it holds of every row.
PlainRows == 1..MaxLen
EmptyTable == [x \in PlainRows |-> 0]
BagOf(rows) == [x \in PlainRows |-> Cardinality({i \in 1..Len(rows) : rows[i] = x})]
BagSum(a, b) == [x \in PlainRows |-> a[x] + b[x]]

\* the dataframes load_all passes for a Type 1 dimension or a fact table:
\* no rows, or MaxLen distinct rows
PlainFrames == {<<>>, [i \in 1..MaxLen |-> i]}

\* the dataframes load_all passes for a versioned dimension
HostFrames ==
    {f \in SingleRowFrames :
        \A i \in 1..Len(f.rows) : f.rows[i].key = 1 /\ f.rows[i].name = "A"}

\* DataFrame.to_sql(if_exists="append") turned into if_exists="replace".
load_dataframe_replace(tbl, rows) == BagOf(rows)

\* load_dataframe(if_exists="append"): to_sql inserts every row of the
\* dataframe in a transaction that it commits.
load_dataframe(tbl, rows) == BagSum(tbl, BagOf(rows))

\* TRUNCATE TABLE t RESTART IDENTITY CASCADE, inside its transaction
truncate_sql(wh, t) ==
    [u \in DOMAIN wh |-> IF u = t \/ u \in References(t) THEN EmptyTable ELSE wh[u]]

replace_dimension_snapshot(wh, t, rows) ==
    IF rows = <<>>
    THEN wh
    ELSE LET cleared == run_query(wh, truncate_sql(wh, t))
         IN  [cleared EXCEPT ![t] = load_dataframe(cleared[t], rows)]

append_fact(wh, t, rows) ==
    IF rows = <<>>
    THEN wh
    ELSE [wh EXCEPT ![t] = load_dataframe(wh[t], rows)]

\* scd2_upsert of a dataframe that has the natural key column, from the
\* staging to the return, with no other run in between
scd2_statements(wh, t, df, now) ==
    LET staged == staged_df(drop_duplicates(df.rows), now)
        closed == run_query(wh[t], update_sql(wh[t], staged, now))
        inserted == run_query(closed, insert_sql(closed, staged))
    IN  [wh EXCEPT ![StagingOf(t)] = _stage_dataframe(wh[StagingOf(t)], staged),
                   ![t] = inserted]

\* scd2_upsert without the "if dataframe.empty: return" of lines 82-84.
scd2_upsert_no_empty_check(wh, t, df, now) == scd2_statements(wh, t, df, now)

scd2_upsert(wh, t, df, now) ==
    IF df.rows = <<>> THEN wh ELSE scd2_statements(wh, t, df, now)

\* a warehouse loaded once before: one current version in each versioned
\* dimension, nothing yet in the other tables
InitWarehouse ==
    [t \in Tables |->
        IF t \in VersionedTables THEN {Rec(2, 1, "", "x", 1, NaT, TRUE)}
        ELSE IF t \in Type1Tables \cup FactTables THEN EmptyTable
        ELSE {}]

\* ------------------------------------------------ the date dimension
\* A cell of listings.last_review or reviews.date: missing (None, NaN, NaT),
\* a string that is no date, or a date with the hour of its time of day.
Dates == { [year |-> 2024, month |-> 1, day |-> 10],
           [year |-> 2023, month |-> 12, day |-> 9] }
Cells ==
    { [kind |-> "null"], [kind |-> "invalid"] }
    \cup { [kind |-> "date", date |-> d, hour |-> h] : d \in Dates, h \in {0, 13} }

\* a column of a dataframe, or the dataframe without that column
Column(cells) == [present |-> TRUE, cells |-> cells]
NoColumn == [present |-> FALSE, cells |-> <<>>]
Columns == {NoColumn} \cup { Column(c) : c \in UNION {[1..n -> Cells] : n \in 0..MaxLen} }

\* pd.to_datetime(series, errors="coerce"): NaT for what is no date
to_datetime(cells) ==
    [i \in 1..Len(cells) |->
        IF cells[i].kind = "date"
        THEN [nat |-> FALSE, date |-> cells[i].date, hour |-> cells[i].hour]
        ELSE [nat |-> TRUE]]

\* pd.to_datetime(series) with errors="raise" raises on a string that is no date
to_datetime_raises(cells) == \E i \in 1..Len(cells) : cells[i].kind = "invalid"

dropna(series) == SelectSeq(series, LAMBDA ts : ~ ts.nat)

\* Series.dt.normalize() without effect: the time of day is kept.
normalize_keep_time(series) == series

\* Series.dt.normalize(): every timestamp at midnight
normalize(series) == [i \in 1..Len(series) |-> [series[i] EXCEPT !.hour = 0]]

\* Series.drop_duplicates(): the first occurrence of every value, in order
series_drop_duplicates(series) ==
    LET keep == { i \in 1..Len(series) : \A j \in 1..(i - 1) : series[j] # series[i] }
        Pick[n \in 0..Len(series)] ==
            IF n = 0 THEN <<>>
            ELSE IF n \in keep THEN Append(Pick[n - 1], series[n]) ELSE Pick[n - 1]
    IN  Pick[Len(series)]

\* the order of timestamps
Earlier(a, b) ==
    LET A == <<a.date.year, a.date.month, a.date.day, a.hour>>
        B == <<b.date.year, b.date.month, b.date.day, b.hour>>
    IN  \E i \in 1..4 : A[i] < B[i] /\ \A j \in 1..(i - 1) : A[j] = B[j]

sort_values(series) == SortSeq(series, Earlier)

\* n written with w decimal digits, zero padded
Digits(n, w) == [i \in 1..w |-> (n \div (10 ^ (w - i))) % 10]

\* Series.dt.strftime("%Y%m%d")
strftime(ts) == Digits(ts.date.year, 4) \o Digits(ts.date.month, 2) \o Digits(ts.date.day, 2)

\* astype(int) of a string of decimal digits
astype_int(digits) ==
    LET Value[n \in 0..Len(digits)] ==
            IF n = 0 THEN 0 ELSE 10 * Value[n - 1] + digits[n]
    IN  Value[Len(digits)]

\* _build_dim_date: the columns full_date and date_key of its result
_build_dim_date(listings, reviews) ==
    LET date_series ==
            (IF listings.present THEN to_datetime(listings.cells) ELSE <<>>)
            \o (IF reviews.present THEN to_datetime(reviews.cells) ELSE <<>>)
        dates == sort_values(series_drop_duplicates(normalize(dropna(date_series))))
    IN  [i \in 1..Len(dates) |->
            [full_date |-> dates[i], date_key |-> astype_int(strftime(dates[i]))]]

\* transform_datasets raises in _build_fact_listing_daily_metrics, whose
\* to_datetime(fact_df.get("last_review")) has no errors="coerce" and no
\* default for a missing column, or in _build_fact_review, which reads
\* reviews["date"].
transform_raises(listings, reviews) ==
    \/ ~ listings.present
    \/ to_datetime_raises(listings.cells)
    \/ ~ reviews.present

\* ---------------------------------------------------------------- actions
Finished == {"idle", "skipped", "key_error", "done", "failed"}

\* scd2_stage with the natural key looked for after _stage_dataframe: the
\* rows of a dataframe without the key column are staged before KeyError.
scd2_stage_key_check_late(r, df) ==
    /\ pc[r] \in Finished
    /\ dataframe' = [dataframe EXCEPT ![r] = df]
    /\ UNCHANGED <<warehouse, load, transform>>
    /\ IF df.rows = <<>>
       THEN /\ pc' = [pc EXCEPT ![r] = "skipped"]
            /\ UNCHANGED <<target, staging, clock, txn, pre>>
       ELSE IF "key" \notin df.columns
       THEN /\ staging' = _stage_dataframe(staging,
                               { [name |-> df.rows[i].name,
                                  untracked |-> df.rows[i].untracked,
                                  effective_from |-> clock,
                                  effective_to |-> NaT,
                                  is_current |-> TRUE] : i \in 1..Len(df.rows) })
            /\ pc' = [pc EXCEPT ![r] = "key_error"]
            /\ UNCHANGED <<target, clock, txn, pre>>
       ELSE /\ staging' = _stage_dataframe(staging,
                               staged_df(drop_duplicates(df.rows), clock))
            /\ pc' = [pc EXCEPT ![r] = "staged"]
            /\ pre' = [pre EXCEPT ![r] = target]
            /\ txn' = [txn EXCEPT ![r] = target]
            /\ UNCHANGED <<target, clock>>

\* scd2_upsert(dataframe = df) up to and including _stage_dataframe:
\* the empty dataframe returns at once; a dataframe without the natural key
\* column raises KeyError in drop_duplicates(subset=[natural_key]).
scd2_stage(r, df) ==
    /\ pc[r] \in Finished
    /\ dataframe' = [dataframe EXCEPT ![r] = df]
    /\ UNCHANGED <<warehouse, load, transform>>
    /\ IF df.rows = <<>>
       THEN /\ pc' = [pc EXCEPT ![r] = "skipped"]
            /\ UNCHANGED <<target, staging, clock, txn, pre>>
       ELSE IF "key" \notin df.columns
       THEN /\ pc' = [pc EXCEPT ![r] = "key_error"]
            /\ UNCHANGED <<target, staging, clock, txn, pre>>
       ELSE /\ staging' = _stage_dataframe(staging,
                               staged_df(drop_duplicates(df.rows), clock))
            /\ pc' = [pc EXCEPT ![r] = "staged"]
            /\ pre' = [pre EXCEPT ![r] = target]
            /\ txn' = [txn EXCEPT ![r] = target]
            /\ UNCHANGED <<target, clock>>

\* connector.run_query(update_sql)
scd2_close_out(r) ==
    /\ pc[r] = "staged"
    /\ LET result == update_sql(target, staging, clock)
       IN  /\ txn' = [txn EXCEPT ![r] = result]
           /\ target' = run_query(target, result)
    /\ pc' = [pc EXCEPT ![r] = "updated"]
    /\ UNCHANGED <<staging, clock, pre, dataframe, warehouse, load, transform>>

\* scd2_insert with the INSERT sent through a committing connection while
\* the UPDATE still goes through run_query.
scd2_insert_committed(r) ==
    /\ pc[r] = "updated"
    /\ LET result == insert_sql(target, staging)
       IN  /\ txn' = [txn EXCEPT ![r] = result]
           /\ target' = result
    /\ pc' = [pc EXCEPT ![r] = "done"]
    /\ UNCHANGED <<staging, clock, pre, dataframe, warehouse, load, transform>>

\* connector.run_query(insert_sql)
scd2_insert(r) ==
    /\ pc[r] = "updated"
    /\ LET result == insert_sql(target, staging)
       IN  /\ txn' = [txn EXCEPT ![r] = result]
           /\ target' = run_query(target, result)
    /\ pc' = [pc EXCEPT ![r] = "done"]
    /\ UNCHANGED <<staging, clock, pre, dataframe, warehouse, load, transform>>

\* a statement raises, or the run is interrupted, between the staging and
\* the return of scd2_upsert; the error propagates to the caller
raise_error(r) ==
    /\ pc[r] \in {"staged", "updated"}
    /\ pc' = [pc EXCEPT ![r] = "failed"]
    /\ UNCHANGED <<target, staging, clock, txn, pre, dataframe, warehouse, load, transform>>

Tick ==
    /\ clock < MaxClock
    /\ clock' = clock + 1
    /\ UNCHANGED <<target, staging, pc, txn, pre, dataframe, warehouse, load, transform>>

Init ==
    /\ target \in InitTargets
    /\ staging = {}
    /\ clock = 2
    /\ pc = [r \in Runs |-> "idle"]
    /\ txn = [r \in Runs |-> target]
    /\ pre = [r \in Runs |-> target]
    /\ dataframe = [r \in Runs |-> Frame(AllColumns, <<>>)]
    /\ warehouse = InitWarehouse
    /\ load = [pos |-> 0, status |-> "idle", outcome |-> "none", frame |-> <<>>]
    /\ transform = [status |-> "idle", listings |-> NoColumn, reviews |-> NoColumn,
                    dim_date |-> <<>>]

\* The DAG sets no max_active_runs and load_all takes no lock: a run may
\* start while another is inside its load phase.
Next ==
    \/ Tick
    \/ \E r \in Runs : \E df \in SingleRowFrames : scd2_stage(r, df)
    \/ \E r \in Runs : scd2_close_out(r)
    \/ \E r \in Runs : scd2_insert(r)
    \/ \E r \in Runs : raise_error(r)

Spec == Init /\ [][Next]_vars

\* Runs executed alone, one after the other: the scheduled run, started
\* again when it has ended.
NextSerial ==
    \/ Tick
    \/ \E df \in UniqueKeyFrames : scd2_stage("scheduled", df)
    \/ scd2_close_out("scheduled")
    \/ scd2_insert("scheduled")
    \/ raise_error("scheduled")

SpecSerial == Init /\ [][NextSerial]_vars

\* One caller of scd2_upsert that may pass any dataframe: duplicate keys,
\* no rows, no natural key column.  The target starts with versions of one
\* key and the calls are made at one instant.
InitCalls == Init /\ \A d \in target : d.key = 1

NextCalls ==
    \/ \E df \in Dataframes : scd2_stage("scheduled", df)
    \/ scd2_close_out("scheduled")
    \/ scd2_insert("scheduled")
    \/ raise_error("scheduled")

SpecCalls == InitCalls /\ [][NextCalls]_vars

\* A scheduled run that is interrupted between the two statements of
\* scd2_upsert (after the close-out, before the insert), followed by runs
\* that are handed the same snapshot again: the scheduler's retry or a
\* manual re-run.
NextRetry ==
    \/ Tick
    \/ (pc["scheduled"] = "idle" /\ \E df \in UniqueKeyFrames : scd2_stage("scheduled", df))
    \/ scd2_close_out("scheduled")
    \/ (pc["scheduled"] = "updated" /\ raise_error("scheduled"))
    \/ (pc["scheduled"] = "failed" /\ scd2_stage("manual", dataframe["scheduled"]))
    \/ scd2_close_out("manual")
    \/ scd2_insert("manual")
    \/ raise_error("manual")

SpecRetry == Init /\ [][NextRetry]_vars

\* ---------------------------------------------------------------- load_all
scd2vars == <<target, staging, clock, pc, txn, pre, dataframe>>

\* the target of the next call of the running load_all
NextTarget == Targets[load.pos + 1]

\* load after the call for target number k returned
Returned(k, outcome, rows) ==
    [pos |-> k, status |-> IF k = Len(Targets) THEN "done" ELSE "running",
     outcome |-> outcome, frame |-> rows]

Outcome(rows) == IF rows = <<>> THEN "skipped" ELSE "written"

\* no table grows beyond the modelled number of copies
WithinCopies(wh) ==
    \A t \in Type1Tables \cup FactTables : \A x \in PlainRows : wh[t][x] <= MaxCopies

\* load_all is called: by the orchestrator, or again by the scheduler's retry
load_all_call ==
    /\ load.status \in {"idle", "done", "failed"}
    /\ load' = [pos |-> 0, status |-> "running", outcome |-> "none", frame |-> <<>>]
    /\ UNCHANGED <<warehouse, scd2vars, transform>>

\* scd2_upsert(..., table_name="dim_host" / "dim_listing")
load_versioned ==
    /\ load.status = "running"
    /\ NextTarget \in VersionedTables
    /\ \E df \in HostFrames :
         /\ warehouse' = scd2_upsert(warehouse, NextTarget, df, clock)
         /\ load' = Returned(load.pos + 1, Outcome(df.rows), df.rows)
    /\ UNCHANGED <<scd2vars, transform>>

\* replace_dimension_snapshot(connector, transformation.dimensions[t], t)
load_type1 ==
    /\ load.status = "running"
    /\ NextTarget \in Type1Tables
    /\ \E rows \in PlainFrames :
         /\ warehouse' = replace_dimension_snapshot(warehouse, NextTarget, rows)
         /\ WithinCopies(warehouse')
         /\ load' = Returned(load.pos + 1, Outcome(rows), rows)
    /\ UNCHANGED <<scd2vars, transform>>

\* "dim_date" is not in transformation.dimensions: the call is left out
load_dim_date_absent ==
    /\ load.status = "running"
    /\ NextTarget = "dim_date"
    /\ load' = Returned(load.pos + 1, "absent", <<>>)
    /\ UNCHANGED <<warehouse, scd2vars, transform>>

\* append_fact(connector, transformation.facts[t], t)
load_fact ==
    /\ load.status = "running"
    /\ NextTarget \in FactTables
    /\ \E rows \in PlainFrames :
         /\ warehouse' = append_fact(warehouse, NextTarget, rows)
         /\ WithinCopies(warehouse')
         /\ load' = Returned(load.pos + 1, Outcome(rows), rows)
    /\ UNCHANGED <<scd2vars, transform>>

\* The call for the next target raises (ConnectorError, a database error):
\* load_all has no try/except, so the error leaves load_all.  A statement of
\* run_query or a to_sql that fails commits nothing; scd2_upsert may fail
\* after its staging table was written.  The empty dataframe returns before
\* anything that can fail.
load_raise ==
    /\ load.status = "running"
    /\ \/ /\ NextTarget \in VersionedTables
          /\ \E df \in HostFrames :
               /\ df.rows # <<>>
               /\ load' = [pos |-> load.pos + 1, status |-> "failed",
                           outcome |-> "raised", frame |-> df.rows]
               /\ \/ UNCHANGED warehouse
                  \/ warehouse' =
                        [warehouse EXCEPT ![StagingOf(NextTarget)] =
                            scd2_statements(warehouse, NextTarget, df, clock)
                                [StagingOf(NextTarget)]]
       \/ /\ NextTarget \notin VersionedTables
          /\ \E rows \in PlainFrames :
               /\ rows # <<>>
               /\ load' = [pos |-> load.pos + 1, status |-> "failed",
                           outcome |-> "raised", frame |-> rows]
          /\ UNCHANGED warehouse
    /\ UNCHANGED <<scd2vars, transform>>

InitLoad == Init /\ target = {}

NextLoad ==
    \/ load_all_call
    \/ load_versioned
    \/ load_type1
    \/ load_dim_date_absent
    \/ load_fact
    \/ load_raise

SpecLoad == InitLoad /\ [][NextLoad]_vars

\* ------------------------------------------------------ transform_datasets
othervars == <<scd2vars, warehouse, load>>

\* extract_sources: the listings and reviews dataframes read from the CSV
\* files, of which the model keeps the two date columns
extract_sources ==
    /\ transform.status = "idle"
    /\ \E l \in Columns, r \in Columns :
         transform' = [status |-> "extracted", listings |-> l, reviews |-> r,
                       dim_date |-> <<>>]
    /\ UNCHANGED othervars

\* transform_datasets(extraction): dim_date is built before the facts, and
\* is returned only if building the facts does not raise
transform_datasets ==
    /\ transform.status = "extracted"
    /\ IF transform_raises(transform.listings, transform.reviews)
       THEN transform' = [transform EXCEPT !.status = "raised"]
       ELSE transform' =
              [transform EXCEPT
                 !.status = "done",
                 !.dim_date = _build_dim_date(transform.listings, transform.reviews)]
    /\ UNCHANGED othervars

NextTransform ==
    \/ extract_sources
    \/ transform_datasets

SpecTransform == InitLoad /\ [][NextTransform]_vars

\* ------------------------------------------------------------ properties
Current(tbl, k) == {d \in tbl : d.key = k /\ d.is_current}
AtMostOneCurrent(tbl) == \A k \in Keys : Cardinality(Current(tbl, k)) <= 1
StagedKeys == {s.key : s \in staging}
Ids(tbl) == {d.id : d \in tbl}
AllFinished == \A r \in Runs : pc[r] \in Finished
InLoadPhase(r) == pc[r] \in {"staged", "updated"}

\* the staged row of a key changes the current version the run found
NeedsVersion(r, s) ==
    \E d \in pre[r] : d.key = s.key /\ d.is_current
                       /\ _diff_condition(d, s, tracked_columns)

\* C1: after any sequence of runs executed alone, every natural key has at
\* most one record with is_current = TRUE in the target table.
C1_AtMostOneCurrent == AllFinished => AtMostOneCurrent(target)

\* a run completed whose snapshot changed the current version of a key
C1_Witness ==
    /\ pc["scheduled"] = "done"
    /\ \E s \in staging : NeedsVersion("scheduled", s)

\* of two records of one key, the one with the earlier effective_from ends,
\* if it ends, no later than the other begins
NoOverlap(tbl) ==
    \A a, b \in tbl :
        (a.key = b.key /\ a.effective_from < b.effective_from /\ a.effective_to # NaT)
            => a.effective_to <= b.effective_from

\* C2: after any sequence of completed runs, the records of every natural
\* key, ordered by effective_from, do not overlap: each effective_to that is
\* set is at most the next record's effective_from.
C2_NoOverlap == AllFinished => NoOverlap(target)

\* a run completed for a changed key, with the clock advanced between the
\* run timestamp and the end of the run
C2_Witness ==
    /\ pc["scheduled"] = "done"
    /\ \E s \in staging : NeedsVersion("scheduled", s) /\ s.effective_from < clock

\* C3: while a run is updating a key that had one current version before
\* the run, the committed table (what a reader sees) has exactly one
\* current version of that key.
C3_ReaderAtomicity ==
    \A r \in Runs :
        pc[r] \in {"staged", "updated", "done"} =>
            \A s \in staging :
                Cardinality(Current(pre[r], s.key)) = 1
                    => Cardinality(Current(target, s.key)) = 1

\* the close-out statement has executed and closed a version
C3_Witness ==
    /\ pc["scheduled"] = "updated"
    /\ \E d \in pre["scheduled"] : d.is_current /\ d \notin txn["scheduled"]

\* C4: a run that fails after the staging leaves the target table exactly
\* as it was before the run.
C4_FailureAtomicity ==
    \A r \in Runs : pc[r] = "failed" => target = pre[r]

\* the run failed after its close-out statement had closed a version
C4_Witness ==
    /\ pc["scheduled"] = "failed"
    /\ \E d \in pre["scheduled"] : d.is_current /\ d \notin txn["scheduled"]

\* C5: two runs are never inside their load phase at the same time, and
\* at-most-one-current holds.
C5_RunsSerialized ==
    /\ \A r, q \in Runs : r # q => ~ (InLoadPhase(r) /\ InLoadPhase(q))
    /\ AtMostOneCurrent(target)

\* C6: when run_query has returned, the statement's effect is committed:
\* the close-outs are visible before the INSERT starts, and both
\* statements' effects are in the table after the run.
C6_CloseOutDurable ==
    \A r \in Runs : pc[r] \in {"updated", "done"} => target = txn[r]

\* every staged key has a current version equal to it on the tracked columns
NoChange(r) ==
    \A s \in staging :
        \E d \in pre[r] : /\ d.key = s.key /\ d.is_current
                           /\ \A col \in tracked_columns : d[col] = s[col]

\* the committed table after one more scd2_upsert of the staged snapshot
RunAgain(tbl) ==
    LET closed == run_query(tbl, update_sql(tbl, staging, clock))
    IN  run_query(closed, insert_sql(closed, staging))

\* C7: a run whose staged rows all equal their current versions closes
\* nothing and inserts nothing, neither in the committed table nor inside
\* its statements; and running again with the snapshot of a completed run
\* leaves the table identical.
C7_NoChangeNoOp ==
    \A r \in Runs :
        /\ (pc[r] \in {"updated", "done"} /\ NoChange(r))
               => (target = pre[r] /\ txn[r] = pre[r])
        /\ pc[r] = "done" => RunAgain(target) = target

\* a run with an unchanged, non-empty snapshot completed
C7_Witness == pc["scheduled"] = "done" /\ NoChange("scheduled")

\* C8: after a completed run, for every staged key whose current version
\* differed on a tracked column, the former current record is closed and
\* exactly one new current record carries the staged values.
C8_ChangeTriggersVersioning ==
    \A r \in Runs :
        pc[r] = "done" =>
            \A s \in staging : \A d \in pre[r] :
                (d.key = s.key /\ d.is_current /\ _diff_condition(d, s, tracked_columns))
                => /\ \E c \in target : /\ c.id = d.id
                                         /\ c.effective_to # NaT
                                         /\ ~ c.is_current
                   /\ LET new == {n \in target : n.key = s.key /\ n.id \notin Ids(pre[r])}
                      IN  /\ Cardinality(new) = 1
                          /\ \A n \in new : /\ n.name = s.name
                                            /\ n.is_current
                                            /\ n.effective_to = NaT
                                            /\ n.effective_from = s.effective_from

\* C9: after a completed run, every staged key that had no current record
\* has exactly one new record, current and open, and none of its existing
\* records was closed.
C9_NewEntityInsertion ==
    \A r \in Runs :
        pc[r] = "done" =>
            \A s \in staging :
                Current(pre[r], s.key) = {}
                => /\ LET new == {n \in target : n.key = s.key /\ n.id \notin Ids(pre[r])}
                      IN  /\ Cardinality(new) = 1
                          /\ \A n \in new : n.is_current /\ n.effective_to = NaT
                   /\ \A d \in pre[r] : d.key = s.key => d \in target

\* the records of the keys that are not in the staged snapshot
AbsentRecords(tbl) == {d \in tbl : d.key \notin StagedKeys}

\* C10: the records of a key absent from the run's snapshot are unchanged,
\* in the committed table and inside the run's statements, at every step
\* of the run.
C10_AbsenceIsNotDeletion ==
    \A r \in Runs :
        pc[r] \in {"staged", "updated", "done", "failed"}
            => /\ AbsentRecords(target) = AbsentRecords(pre[r])
               /\ AbsentRecords(txn[r]) = AbsentRecords(pre[r])

\* a run completed that versioned one key while another key, absent from
\* its snapshot, had a current record
C10_Witness ==
    /\ pc["scheduled"] = "done"
    /\ \E d \in pre["scheduled"] : d.is_current /\ d.key \notin StagedKeys
    /\ txn["scheduled"] # pre["scheduled"]

\* the candidate columns of a staged row
Row(s) == [key |-> s.key, name |-> s.name, untracked |-> s.untracked]

\* the last row of every key, in the order of the rows
LastOfKey(rows) ==
    { rows[n] : n \in { i \in 1..Len(rows) :
                          \A j \in (i + 1)..Len(rows) : rows[j].key # rows[i].key } }

\* C11: when the staging table has been written, it holds for every key of
\* the candidate dataframe exactly one row, the last one of that key in the
\* dataframe's row order.
C11_LastWriteWins ==
    pc["scheduled"] = "staged"
        => {Row(s) : s \in staging} = LastOfKey(dataframe["scheduled"].rows)

\* the step is a call of scd2_upsert, replace_dimension_snapshot or
\* append_fact made by load_all
HandlerCall == load'.pos = load.pos + 1 /\ load'.outcome # "absent"

\* C12: a call of scd2_upsert, replace_dimension_snapshot or append_fact
\* with a dataframe of zero rows returns without raising and leaves every
\* table, target and staging, unchanged.
C12_EmptyInputNoOp ==
    [][ (HandlerCall /\ load'.frame = <<>>)
            => (load'.status # "failed" /\ warehouse' = warehouse) ]_vars

\* scd2_upsert returned on an empty dataframe while the staging table of
\* its dimension held the rows of an earlier run
C12_Witness ==
    /\ load.outcome = "skipped"
    /\ load.pos = 1
    /\ warehouse["dim_host_staging"] # {}

\* the step is a call of scd2_upsert by run r
CallStep(r) ==
    /\ pc[r] \in Finished
    /\ (pc'[r] # pc[r] \/ dataframe'[r] # dataframe[r])

\* the dataframe of run r's last call has no natural key column
KeyAbsent(r) == "key" \notin dataframe[r].columns

\* C13 as stated: whenever the natural key column is absent from the
\* dataframe passed to scd2_upsert, the call fails with the missing-key
\* error.
C13_MissingKeyIsError ==
    \A r \in Runs : KeyAbsent(r) => pc[r] = "key_error"

\* C13: whenever the natural key column is absent from a dataframe of at
\* least one row passed to scd2_upsert, the call fails with the missing-key
\* error, and neither the staging table nor the target table, committed or
\* inside a statement, is touched.
C13_MissingKeyNonEmpty ==
    [][ \A r \in Runs :
          (CallStep(r) /\ KeyAbsent(r)' /\ dataframe'[r].rows # <<>>)
              => (pc'[r] = "key_error" /\ UNCHANGED <<target, staging, txn>>) ]_vars

\* a call without the key column failed while the staging table held the
\* rows of an earlier call
C13_Witness ==
    /\ pc["scheduled"] = "key_error"
    /\ KeyAbsent("scheduled")
    /\ staging # {}

\* a replace_dimension_snapshot call of load_all returned after writing
Replaced ==
    /\ load.outcome = "written"
    /\ load.pos \in 1..Len(Targets)
    /\ Targets[load.pos] \in Type1Tables

\* C14: after a completed replace_dimension_snapshot call with a non-empty
\* dataframe the table holds exactly the rows of the dataframe, and none of
\* the rows it held before.
C14_Type1Replacement ==
    Replaced => warehouse[Targets[load.pos]] = BagOf(load.frame)

\* the number of rows of a table
Count(tbl) == LET Sum[n \in 0..MaxLen] == IF n = 0 THEN 0 ELSE Sum[n - 1] + tbl[n]
              IN  Sum[MaxLen]

\* the step is an append_fact call of load_all that wrote
AppendStep ==
    /\ load'.pos = load.pos + 1
    /\ load'.outcome = "written"
    /\ Targets[load'.pos] \in FactTables

\* C15: an append_fact call with a dataframe of m rows keeps every copy of
\* every row the fact table held, adds one copy of a row for each time the
\* dataframe holds it, m rows in all, and so a table that held k - 1 copies
\* of the dataframe holds k.
C15_FactAppendOnly ==
    [][ AppendStep =>
          LET t == Targets[load'.pos]
          IN  /\ \A x \in PlainRows :
                    warehouse'[t][x] = warehouse[t][x]
                        + Cardinality({i \in 1..Len(load'.frame) : load'.frame[i] = x})
              /\ Count(warehouse'[t]) = Count(warehouse[t]) + Len(load'.frame) ]_vars

\* a second append_fact call with the same dataframe returned: the fact
\* table holds two copies of every row
C15_Witness ==
    /\ load.outcome = "written"
    /\ load.pos = 6
    /\ \A x \in PlainRows : warehouse["fact_listing_daily_metrics"][x] = 2

\* C16: no step of any sequence of load_all runs removes a row from a fact
\* table, the replace_dimension_snapshot calls with their cascading
\* truncate included.
C16_FactsNeverDeleted ==
    [][ \A t \in FactTables : \A x \in PlainRows :
            warehouse'[t][x] >= warehouse[t][x] ]_vars

\* replace_dimension_snapshot wrote a dimension while a fact table that
\* references it held rows
C16_Witness ==
    /\ Replaced
    /\ \E t \in References(Targets[load.pos]) : warehouse[t] # EmptyTable

\* the tables a handler call for target t may write
TablesOf(t) == IF t \in VersionedTables THEN {t, StagingOf(t)} ELSE {t}

\* C17: load_all processes its targets one at a time in the order dim_host,
\* dim_listing, dim_neighborhood, dim_property_type, dim_date,
\* fact_listing_daily_metrics, fact_review: a step writes only the tables of
\* the target whose turn it is.  When the step of a target raises, the
\* tables of the other targets stay as they are, the writes of the earlier
\* steps included, and the failed run writes nothing more.
C17_FixedOrderFailStop ==
    [][ LET order == <<"dim_host", "dim_listing", "dim_neighborhood",
                       "dim_property_type", "dim_date",
                       "fact_listing_daily_metrics", "fact_review">>
        IN  /\ \A u \in Tables :
                  warehouse'[u] # warehouse[u]
                      => /\ load.status = "running"
                         /\ load'.pos = load.pos + 1
                         /\ u \in TablesOf(order[load'.pos])
            /\ (load.status = "running" /\ load' # load)
                  => load'.pos = load.pos + 1
            /\ load.status = "failed"
                  => (warehouse' = warehouse /\ load'.pos = 0) ]_vars

\* the append_fact call for fact_listing_daily_metrics raised after the
\* same run had written dim_neighborhood and the staging table of dim_host
C17_Witness ==
    /\ load.status = "failed"
    /\ load.pos = 6
    /\ warehouse["dim_neighborhood"] # EmptyTable
    /\ warehouse["dim_host_staging"] # {}
    /\ warehouse["fact_review"] = EmptyTable

\* a value as text, null as the empty string
AsText(v) == IF v = Null THEN "" ELSE v

\* the staged row has no current counterpart, or its tracked column differs
\* from the counterpart's as text
ExpectedChanged(tbl, s) ==
    \/ Current(tbl, s.key) = {}
    \/ \E d \in Current(tbl, s.key) : AsText(d.name) # AsText(s.name)

\* C18: the INSERT judges a staged row changed exactly when it has no
\* current counterpart or its tracked column differs from the counterpart's
\* after null is replaced by the empty string, and the UPDATE closes exactly
\* the current records whose staged row differs so; null against null, null
\* against the empty string and a difference in an untracked column are
\* no change.
C18_ChangeDetection ==
    \A r \in Runs :
        /\ pc[r] \in {"staged", "updated", "done"}
              => \A s \in staging :
                    (\E j \in Changed(target, staging) : j.s = s)
                        <=> ExpectedChanged(target, s)
        /\ pc[r] = "updated"
              => \A d \in target :
                    (d \notin txn[r])
                        <=> (d.is_current /\ \E s \in staging :
                                d.key = s.key /\ AsText(d.name) # AsText(s.name))
        /\ pc[r] = "done"
              => {n.key : n \in txn[r] \ target}
                    = {s.key : s \in {x \in staging : ExpectedChanged(target, x)}}

\* a run completed whose staged row has the empty string where the current
\* record has null, and another value in the untracked column
C18_Witness ==
    /\ pc["scheduled"] = "done"
    /\ \E s \in staging : \E d \in Current(target, s.key) :
          d.name = Null /\ s.name = "" /\ d.untracked # s.untracked

\* is_current is TRUE exactly for the records whose effective_to is unset
FlagConsistent(tbl) == \A d \in tbl : d.is_current <=> d.effective_to = NaT

\* C19: in the committed target table and in the table as each statement of
\* a run leaves it inside its transaction (after the close-out, after the
\* insert), a record is current exactly when its effective_to is unset; the
\* staged rows are current, have effective_to unset and share one
\* effective_from.
C19_CurrentFlagConsistency ==
    /\ FlagConsistent(target)
    /\ \A r \in Runs : FlagConsistent(txn[r])
    /\ \A s \in staging : s.is_current /\ s.effective_to = NaT
    /\ \A s1, s2 \in staging : s1.effective_from = s2.effective_from

\* the close-out of a run with two staged rows has closed a version
C19_Witness ==
    /\ pc["scheduled"] = "updated"
    /\ Cardinality(staging) = 2
    /\ \E d \in txn["scheduled"] : d \notin pre["scheduled"] /\ ~ d.is_current

\* every record of old is in new with its key, attributes and
\* effective_from, either as it was or closed from current
Preserved(old, new) ==
    \A d \in old :
        \E n \in new :
            /\ n.id = d.id
            /\ n.key = d.key /\ n.name = d.name /\ n.untracked = d.untracked
            /\ n.effective_from = d.effective_from
            /\ \/ n = d
               \/ /\ d.is_current /\ d.effective_to = NaT
                  /\ ~ n.is_current /\ n.effective_to # NaT

\* C20: at every step of a run each record the target held before the run
\* is still there, in the committed table and inside the run's statements,
\* with its key, attributes and effective_from; it is unchanged, or it was
\* current and open and is now closed, and a record that was closed is
\* unchanged.
C20_HistoryPreserved ==
    \A r \in Runs :
        pc[r] \in {"staged", "updated", "done", "failed"}
            => /\ Preserved(pre[r], txn[r])
               /\ Preserved(pre[r], target)

\* the close-out of a run closed the current version of a key that also
\* has a closed version
C20_Witness ==
    /\ pc["scheduled"] \in {"updated", "done"}
    /\ \E d, c \in pre["scheduled"] :
          /\ d.key = c.key /\ d.is_current /\ ~ c.is_current
          /\ \E n \in txn["scheduled"] : n.id = d.id /\ ~ n.is_current

\* the calendar dates that occur, as a date, in a column as extracted
DatesIn(column) ==
    { column.cells[i].date :
        i \in { n \in 1..Len(column.cells) : column.cells[n].kind = "date" } }

ObservedDates == DatesIn(transform.listings) \cup DatesIn(transform.reviews)

\* C21: the dim_date dataframe transform_datasets produces has exactly one
\* row for every calendar date that occurs in listings.last_review or in
\* reviews.date, none for anything else, and the date_key of a row is its
\* date as the number YYYYMMDD.
C21_DateDimension ==
    transform.status = "done" =>
        LET rows == transform.dim_date
        IN  /\ \A d \in ObservedDates :
                  Cardinality({i \in 1..Len(rows) : rows[i].full_date.date = d}) = 1
            /\ \A i \in 1..Len(rows) :
                  /\ rows[i].full_date.date \in ObservedDates
                  /\ rows[i].date_key
                        = rows[i].full_date.date.year * 10000
                          + rows[i].full_date.date.month * 100
                          + rows[i].full_date.date.day
            /\ \A i, j \in 1..Len(rows) :
                  rows[i].date_key = rows[j].date_key => i = j

\* transform_datasets returned for columns in which one date occurs twice,
\* at two times of day, next to a missing value and another date
C21_Witness ==
    /\ transform.status = "done"
    /\ Len(transform.dim_date) = 2
    /\ \E i, j \in 1..Len(transform.listings.cells) :
          /\ transform.listings.cells[i].kind = "date"
          /\ transform.listings.cells[j].kind = "date"
          /\ transform.listings.cells[i].date = transform.listings.cells[j].date
          /\ transform.listings.cells[i].hour # transform.listings.cells[j].hour
    /\ \E i \in 1..Len(transform.reviews.cells) :
          transform.reviews.cells[i].kind # "date"

\* ---------------------------------------------------------------------
\* C22: after a run that failed between the close-out and the insert, the
\* next completed run with the same snapshot leaves every staged key that
\* had closed versions and no current one with exactly one current version,
\* and changes none of the records that key already had.
Orphaned(tbl, k) == Current(tbl, k) = {} /\ \E d \in tbl : d.key = k

UntrackedOnly(tbl, s) ==
    /\ Current(tbl, s.key) # {}
    /\ \A d \in Current(tbl, s.key) : AsText(d.name) = AsText(s.name)
    /\ \E d \in Current(tbl, s.key) : d.untracked # s.untracked

OfKey(tbl, k) == {d \in tbl : d.key = k}

\* C23: when a staged row differs from its current record only in the
\* untracked column, the run closes out nothing and inserts nothing for
\* that key, neither inside its statements' transactions nor in the
\* committed table, so the old untracked value stays.
C23_UntrackedNeverVersions ==
    \A r \in Runs :
        pc[r] \in {"updated", "done"} =>
            \A s \in staging :
                UntrackedOnly(pre[r], s) =>
                    /\ OfKey(txn[r], s.key) = OfKey(pre[r], s.key)
                    /\ OfKey(target, s.key) = OfKey(pre[r], s.key)

C23_Witness ==
    /\ pc["scheduled"] = "done"
    /\ \E s \in staging :
          /\ UntrackedOnly(pre["scheduled"], s)
          /\ \E d \in Current(target, s.key) :
                d.untracked = "x" /\ s.untracked = "y"

====
